---- MODULE Spec2Model ----
(***************************************************************************)
(* opcuad: a TCP gateway that bridges a line-delimited JSON protocol       *)
(* (connect / read) to an OPC UA session.  The model follows one accepted  *)
(* connection through handle_client (src/main.rs): the read loop and its   *)
(* framing, parse_request, handle_request, the two response writers and    *)
(* the teardown after the loop, together with the environment the handler  *)
(* talks to: the peer's byte stream, the socket's failures, the external   *)
(* connect / read calls and the keep-alive task started by run_async.      *)
(*                                                                         *)
(* A panic (a failed .unwrap()) unwinds the connection thread: the model   *)
(* moves pc to "panicked" and nothing after the panicking call happens.    *)
(***************************************************************************)
EXTENDS Integers, Sequences, FiniteSets, TLC

(* ------------------------------ bounds --------------------------------- *)
\* number of payloads the peer sends on the connection
MaxSends == 3
\* largest number of bytes one stream.read returns (buf is 512 bytes in the
\* source; the model scales the buffer down)
MaxChunk == 6

(* ------------------------- program constants --------------------------- *)
LINE_FEED == 10

(* --------------------------- option values ----------------------------- *)
\* Option<T>: None is the empty sequence, Some(v) the one-element sequence.
None == <<>>
Some(v) == <<v>>

(* ------------------------------ bytes ---------------------------------- *)
\* The wire alphabet: 'c' 99, 'r' 114, 'd' 100, '1' 49, '2' 50, '{' 123, the
\* delimiter 10 and 255, a byte that occurs in no UTF-8 text.  The two
\* request texts stand for the JSON objects of the protocol, shortened to
\* two bytes each so that a frame can still be cut in the middle.
Namespaces == {1, 2}
NodeIds == <<"A">>

\* the text of a Connect request with the given namespace: "c1", "c2"
ConnectText(ns) == <<99, 48 + ns>>
\* the text of a Read request: "rd"
ReadText == <<114, 100>>
\* "{" : UTF-8, but no request
GarbageText == <<123>>
\* one byte that is not UTF-8
BadUtf8Text == <<255>>

\* Request (lines 14-24); host, port and endpoint only travel to the
\* external connect call and are not modelled.
ConnectReq(ns) == [type |-> "connect", namespace |-> ns]
ReadReq == [type |-> "read", node_ids |-> NodeIds]

\* Response (lines 28-32)
ConnectOk == [type |-> "connect_ok"]
ErrorResp(m) == [type |-> "error", message |-> m]
ReadOk(vals) == [type |-> "read_ok", values |-> vals]

\* State (lines 41-45, 79-83)
EmptyState == [server |-> None, session |-> None, command_sender |-> None]

VARIABLES
    pc,            \* "loop": at stream.read; "done": handle_client returned;
                   \* "panicked": the thread unwound from a failed unwrap
    state,         \* the State value held by handle_client
    raw_request,   \* the accumulation buffer
    wire,          \* bytes the peer has sent and the handler has not read
    sends,         \* number of payloads the peer has sent
    task,          \* keep-alive task: "none", "running", "ended"
    channel,       \* commands sent on the task's mpsc channel
    written,       \* responses written to the socket, in write order
    dispatched,    \* requests passed to handle_request, in order
    connectCalls,  \* calls of connect(): [ok, req], req the Connect request
    readCalls,     \* external read calls: [session, namespace, ok]
    last,          \* what the latest step of the handler did
    cur,           \* bytes of the wire frame now being received
    curReads,      \* number of delimiter-free reads that delivered cur
    curClean,      \* cur started at the start of a read
    pair,          \* the latest read holding two whole request frames
    endCause,      \* why the handler ended
    answered,      \* for each response written, the index in dispatched
                   \* of the request it answers
    spawns,        \* the session handles keep-alive tasks were started on
    delimReads,    \* number of reads that returned a delimiter
    \* the session lock (specification SpecLock)
    lock,          \* holder of the RwLock's write access: "free",
                   \* "handler", "task"
    hpc,           \* handler inside a Read: "idle", "waiting", "reading"
    tpc,           \* keep-alive task: "idle", "waiting", "polling", "ended"
    lockReads,     \* external reads the handler has finished
    lockPolls,     \* keep-alive rounds the task has finished
    \* the listener (specification SpecListener)
    listener,      \* "accepting", or "dead" once the main thread panicked
    conns,         \* per connection: its thread's status and progress
    acceptErrors   \* accept errors logged

vars == <<pc, state, raw_request, wire, sends, task, channel,
          written, dispatched, connectCalls, readCalls, last, cur, curReads,
          curClean, pair, endCause, answered, spawns, delimReads,
          lock, hpc, tpc, lockReads, lockPolls,
          listener, conns, acceptErrors>>
lockVars == <<lock, hpc, tpc, lockReads, lockPolls>>
listenerVars == <<listener, conns, acceptErrors>>

(* --------------------------- pure functions ---------------------------- *)
Min(a, b) == IF a < b THEN a ELSE b

\* data.iter().position(|&byte| byte == LINE_FEED) (line 95), 1-based;
\* 0 stands for Option::None.
position(data) ==
    IF \E i \in 1..Len(data) : data[i] = LINE_FEED
    THEN CHOOSE i \in 1..Len(data) :
            /\ data[i] = LINE_FEED
            /\ \A j \in 1..(i - 1) : data[j] # LINE_FEED
    ELSE 0

\* data.split_at(index) (line 96): the bytes before the index, and the bytes
\* from the index on.  index is the 1-based position of the byte that the
\* 0-based Rust index names, so the second half starts with that byte.
split_at(data, index) ==
    [request_end |-> SubSeq(data, 1, index - 1),
     rest        |-> SubSeq(data, index, Len(data))]

\* String::from_utf8 (line 138) accepts the ASCII bytes of the alphabet and
\* rejects 255.
IsUtf8(raw) == \A i \in 1..Len(raw) : raw[i] < 128

\* serde_json skips JSON whitespace before the value and after it.
IsWhitespace(b) == b \in {LINE_FEED, 32, 9, 13}

RECURSIVE SkipLeading(_)
SkipLeading(s) ==
    IF s # <<>> /\ IsWhitespace(Head(s)) THEN SkipLeading(Tail(s)) ELSE s

RECURSIVE SkipTrailing(_)
SkipTrailing(s) ==
    IF s # <<>> /\ IsWhitespace(s[Len(s)])
    THEN SkipTrailing(SubSeq(s, 1, Len(s) - 1))
    ELSE s

\* serde_json::from_str::<Request> (line 139): exactly one JSON value that
\* matches the Request schema, surrounded by optional whitespace.
from_str(text) ==
    LET t == SkipTrailing(SkipLeading(text)) IN
    IF t = ReadText THEN Some(ReadReq)
    ELSE IF \E ns \in Namespaces : t = ConnectText(ns)
         THEN Some(ConnectReq(CHOOSE ns \in Namespaces : t = ConnectText(ns)))
         ELSE None

\* Result<T, String>
Ok(v) == [ok |-> TRUE, val |-> v]
Err(m) == [ok |-> FALSE, val |-> m]

\* parse_request (lines 137-147)
parse_request(raw) ==
    IF IsUtf8(raw)
    THEN IF from_str(raw) # None
         THEN Ok(from_str(raw)[1])
         ELSE Err("request is not valid")
    ELSE Err("request is not valid utf-8")

(* --------------------------- handle_request ---------------------------- *)
\* What one call of handle_request did: whether it panicked, the pair it
\* returned, and the external calls it made.
Outcome(panic, result, st, connects, reads, spawned) ==
    [panic |-> panic, result |-> result, state |-> st,
     connects |-> connects, reads |-> reads, spawned |-> spawned]

\* connect (lines 203-233): connect_to_endpoint(...).unwrap() returns the
\* session handle, or panics when the handshake fails.
connect(handle, connOk) ==
    [panic |-> ~connOk, session |-> handle]

\* Mutant: the Connect stores no stop-signal and starts no task.
ConnectNoSession_NoTask(st, req, handle, connOk) ==
    IF ~connOk
    THEN Outcome(TRUE, Err("panic"), st,
                 <<[ok |-> FALSE, req |-> req]>>, <<>>, FALSE)
    ELSE Outcome(FALSE, Ok(ConnectOk),
                 [command_sender |-> None,
                  server |-> Some([namespace |-> req.namespace]),
                  session |-> Some(handle)],
                 <<[ok |-> TRUE, req |-> req]>>, <<>>, FALSE)

\* Mutant: the server config is stored before the handshake is tried.
ConnectNoSession_StoresFirst(st, req, handle, connOk) ==
    LET early == [st EXCEPT !.server = Some([namespace |-> req.namespace])]
    IN  IF ~connOk
        THEN Outcome(TRUE, Err("panic"), early,
                     <<[ok |-> FALSE, req |-> req]>>, <<>>, FALSE)
        ELSE Outcome(FALSE, Ok(ConnectOk),
                     [command_sender |-> Some(handle),
                      server |-> early.server,
                      session |-> Some(handle)],
                     <<[ok |-> TRUE, req |-> req]>>, <<>>, TRUE)

\* Mutant: the Connect stores no server config.
ConnectNoSession_NoServer(st, req, handle, connOk) ==
    IF ~connOk
    THEN Outcome(TRUE, Err("panic"), st,
                 <<[ok |-> FALSE, req |-> req]>>, <<>>, FALSE)
    ELSE Outcome(FALSE, Ok(ConnectOk),
                 [command_sender |-> Some(handle),
                  server |-> None,
                  session |-> Some(handle)],
                 <<[ok |-> TRUE, req |-> req]>>, <<>>, TRUE)

\* Connect while state.session is None (lines 157-174)
ConnectNoSession(st, req, handle, connOk) ==
    LET c == connect(handle, connOk) IN
    IF c.panic
    THEN Outcome(TRUE, Err("panic"), st,
                 <<[ok |-> FALSE, req |-> req]>>, <<>>, FALSE)
    ELSE Outcome(FALSE, Ok(ConnectOk),
                 [command_sender |-> Some(c.session),
                  server |-> Some([namespace |-> req.namespace]),
                  session |-> Some(c.session)],
                 <<[ok |-> TRUE, req |-> req]>>, <<>>, TRUE)

\* Mutant: the rejected Connect overwrites the stored server config.
ConnectWithSession_Overwrites(st, req) ==
    Outcome(FALSE, Err("Session already in progress"),
            [st EXCEPT !.server = Some([namespace |-> req.namespace])],
            <<>>, <<>>, FALSE)

\* Connect while state.session is Some (line 175)
ConnectWithSession(st, req) ==
    Outcome(FALSE, Err("Session already in progress"), st, <<>>, <<>>, FALSE)

\* Mutant: the Read without a session answers with the other message.
ReadNoSession_WrongMessage(st) ==
    Outcome(FALSE, Err("Session already in progress"), st, <<>>, <<>>, FALSE)

\* Read while state.session is None (line 178)
ReadNoSession(st) ==
    Outcome(FALSE, Err("Cannot read, no active session"), st, <<>>, <<>>, FALSE)

\* the namespace of a Read (lines 180-183)
ReadNamespace(st) ==
    IF st.server # None THEN st.server[1].namespace ELSE 0

\* Mutant: a failed read invalidates the session.
ReadFailed_DropsSession(st, call) ==
    Outcome(FALSE, Err("Unable to read from OPCUA server"),
            [st EXCEPT !.session = None], <<>>, <<call>>, FALSE)

\* the external read failed (lines 193-196)
ReadFailed(st, call) ==
    Outcome(FALSE, Err("Unable to read from OPCUA server"), st,
            <<>>, <<call>>, FALSE)

\* Read while state.session is Some (lines 179-198); the values of a
\* successful read are the nodes read, one per node id.
ReadWithSession(st, req, readOk) ==
    LET namespace == ReadNamespace(st)
        nodes == [i \in 1..Len(req.node_ids) |->
                    [namespace |-> namespace, id |-> req.node_ids[i]]]
        call == [session |-> st.session[1], namespace |-> namespace,
                 ok |-> readOk]
    IN  IF readOk
        THEN Outcome(FALSE, Ok(ReadOk(nodes)), st, <<>>, <<call>>, FALSE)
        ELSE ReadFailed(st, call)

\* Mutant: a Connect is not checked against the stored session.
handle_request_Reconnects(st, req, handle, connOk, readOk) ==
    IF req.type = "connect"
    THEN ConnectNoSession(st, req, handle, connOk)
    ELSE IF st.session = None
         THEN ReadNoSession(st)
         ELSE ReadWithSession(st, req, readOk)

\* handle_request (lines 149-201)
handle_request(st, req, handle, connOk, readOk) ==
    IF req.type = "connect"
    THEN IF st.session = None
         THEN ConnectNoSession(st, req, handle, connOk)
         ELSE ConnectWithSession(st, req)
    ELSE IF st.session = None
         THEN ReadNoSession(st)
         ELSE ReadWithSession(st, req, readOk)

(* ------------------------------ the peer ------------------------------- *)
\* What the peer writes in one go: a frame and its delimiter.
Frames == {ReadText, GarbageText, BadUtf8Text}
              \cup {ConnectText(ns) : ns \in Namespaces}
Payloads == {f \o <<LINE_FEED>> : f \in Frames}

\* The request frames, and the reads that hold exactly two of them.
RequestTexts == {ReadText} \cup {ConnectText(ns) : ns \in Namespaces}
TwoFrames(data) ==
    {p \in RequestTexts \X RequestTexts :
        data = p[1] \o <<LINE_FEED>> \o p[2] \o <<LINE_FEED>>}

\* the bytes of data after its last delimiter
RECURSIVE AfterLastDelimiter(_)
AfterLastDelimiter(data) ==
    IF position(data) = 0 THEN data
    ELSE AfterLastDelimiter(SubSeq(data, position(data) + 1, Len(data)))

Step(op) ==
    [op |-> op, frame |-> <<>>, wireFrame |-> <<>>, span |-> 0,
     decoded |-> None, response |-> None, wrote |-> "none",
     before |-> EmptyState, extCalls |-> 0, spawned |-> FALSE,
     chunk |-> <<>>, panic |-> "none"]

\* The lock and the listener are followed in specifications of their own;
\* here they rest.
LockIdle ==
    /\ lock = "free"
    /\ hpc = "idle"
    /\ tpc = "idle"
    /\ lockReads = 0
    /\ lockPolls = 0
ListenerIdle ==
    /\ listener = "accepting"
    /\ conns = <<>>
    /\ acceptErrors = 0

Init ==
    /\ pc = "loop"
    /\ state = EmptyState
    /\ raw_request = <<>>
    /\ wire = <<>>
    /\ sends = 0
    /\ task = "none"
    /\ channel = <<>>
    /\ written = <<>>
    /\ dispatched = <<>>
    /\ connectCalls = <<>>
    /\ readCalls = <<>>
    /\ last = Step("none")
    /\ cur = <<>>
    /\ curReads = 0
    /\ curClean = TRUE
    /\ pair = None
    /\ endCause = "none"
    /\ answered = <<>>
    /\ spawns = <<>>
    /\ delimReads = 0
    /\ LockIdle
    /\ ListenerIdle

handlerVars == <<pc, state, raw_request, task, channel, written, dispatched,
                 connectCalls, readCalls, last, cur, curReads, curClean,
                 pair, endCause, answered, spawns, delimReads>>

\* The peer writes a payload to its socket.
PeerSend ==
    /\ pc = "loop"
    /\ sends < MaxSends
    /\ \E p \in Payloads : wire' = wire \o p
    /\ sends' = sends + 1
    /\ UNCHANGED <<handlerVars, lockVars, listenerVars>>

(* ------------------------- the keep-alive task ------------------------- *)
\* The task started by Session::run_async ends when it receives Stop ...
KeepAliveStopped ==
    /\ task = "running"
    /\ channel # <<>>
    /\ task' = "ended"
    /\ UNCHANGED <<pc, state, raw_request, wire, sends, channel,
                   written, dispatched, connectCalls, readCalls, last, cur,
                   curReads, curClean, pair, endCause, answered, spawns,
                   delimReads, lockVars, listenerVars>>

\* ... or when it finds the connection to the OPC UA server gone.
KeepAliveLost ==
    /\ task = "running"
    /\ channel = <<>>
    /\ task' = "ended"
    /\ UNCHANGED <<pc, state, raw_request, wire, sends, channel,
                   written, dispatched, connectCalls, readCalls, last, cur,
                   curReads, curClean, pair, endCause, answered, spawns,
                   delimReads, lockVars, listenerVars>>

(* ----------------------------- handle_client --------------------------- *)
\* After the loop (lines 130-134): send Stop if a sender is stored, then
\* print the peer address.  send(..).unwrap() panics when the task has ended
\* (its receiver is dropped); peer_addr().unwrap() panics when the socket
\* has no peer address any more.
Teardown(cause, addrOk) ==
    /\ endCause' = cause
    /\ IF state.command_sender # None /\ task = "ended"
       THEN /\ pc' = "panicked"
            /\ channel' = channel
            /\ last' = [Step(cause) EXCEPT !.before = state,
                                           !.panic = "send"]
       ELSE /\ channel' = IF state.command_sender # None
                          THEN Append(channel, "Stop")
                          ELSE channel
            /\ pc' = IF addrOk THEN "done" ELSE "panicked"
            /\ last' = [Step(cause) EXCEPT
                          !.before = state,
                          !.panic = IF addrOk THEN "none" ELSE "peer_addr"]

\* Mutant: at end-of-stream the bytes left in the buffer are decoded and
\* dispatched.
ReadEof_Decodes ==
    /\ pc = "loop"
    /\ wire = <<>>
    /\ \E addrOk \in BOOLEAN : Teardown("eof", addrOk)
    /\ dispatched' = IF parse_request(raw_request).ok
                     THEN Append(dispatched, parse_request(raw_request).val)
                     ELSE dispatched
    /\ UNCHANGED <<state, raw_request, wire, sends, task, written,
                   connectCalls, readCalls, cur, curReads,
                   curClean, pair, answered, spawns, delimReads,
                   lockVars, listenerVars>>

\* The peer has closed its side and every byte it sent is read: stream.read
\* returns Ok(0) (lines 89-91), then the teardown.
ReadEof ==
    /\ pc = "loop"
    /\ wire = <<>>
    /\ \E addrOk \in BOOLEAN : Teardown("eof", addrOk)
    /\ UNCHANGED <<state, raw_request, wire, sends, task, written,
                   dispatched, connectCalls, readCalls, cur, curReads,
                   curClean, pair, answered, spawns, delimReads,
                   lockVars, listenerVars>>

\* stream.read returns Err (lines 122-126): shutdown(Both).unwrap(), which
\* panics when the shutdown fails, then the teardown.
ReadError ==
    /\ pc = "loop"
    /\ \E shutdownOk \in BOOLEAN, addrOk \in BOOLEAN :
         IF shutdownOk
         THEN Teardown("read_error", addrOk)
         ELSE /\ pc' = "panicked"
              /\ endCause' = "read_error"
              /\ channel' = channel
              /\ last' = [Step("read_error") EXCEPT !.before = state,
                                                    !.panic = "shutdown"]
    /\ UNCHANGED <<state, raw_request, wire, sends, task, written,
                   dispatched, connectCalls, readCalls, cur, curReads,
                   curClean, pair, answered, spawns, delimReads,
                   lockVars, listenerVars>>

\* stream.read returns a chunk without a delimiter (lines 92-95, 118-120).
ReadNoDelimiter ==
    /\ pc = "loop"
    /\ \E size \in 1..Min(Len(wire), MaxChunk) :
         LET data == SubSeq(wire, 1, size) IN
         /\ position(data) = 0
         /\ raw_request' = raw_request \o data
         /\ wire' = SubSeq(wire, size + 1, Len(wire))
         /\ cur' = cur \o data
         /\ curReads' = curReads + 1
         /\ last' = [Step("no_delimiter") EXCEPT !.before = state]
    /\ UNCHANGED <<pc, state, sends, task, channel, written,
                   dispatched, connectCalls, readCalls, curClean, pair,
                   endCause, answered, spawns, delimReads,
                   lockVars, listenerVars>>

\* The outcomes the environment can give to the calls a frame leads to: the
\* external connect is called only for a Connect without a session, the
\* external read only for a Read with one, and a response is written only
\* for a frame that decodes.
ConnectOutcomes(st, parsed) ==
    IF parsed.ok /\ parsed.val.type = "connect" /\ st.session = None
    THEN BOOLEAN ELSE {TRUE}
ReadOutcomes(st, parsed) ==
    IF parsed.ok /\ parsed.val.type = "read" /\ st.session # None
    THEN BOOLEAN ELSE {TRUE}
WriteOutcomes(parsed) ==
    IF parsed.ok THEN BOOLEAN ELSE {TRUE}

\* handle_response (lines 241-247): a failed write is logged and the loop
\* goes on.  handle_error (lines 235-239): write_all(..).unwrap() panics on
\* a failed write.  The result says whether the thread panics.
handle_response(writeOk) == FALSE
handle_error(writeOk) == ~writeOk

\* Mutant: a response is put before the ones already written.
write_all_Prepends(log, item) == <<item>> \o log

\* stream.write_all (lines 238, 244) that succeeds: the bytes follow those
\* written before.
write_all(log, item) == Append(log, item)

\* Mutant: a frame that fails to decode resets the connection state.
parse_failed_Resets(st) == EmptyState

\* The Err arm of the match on parse_request (lines 112-114): the state is
\* not touched.
parse_failed(st) == st

\* stream.read returns a chunk with a delimiter (lines 92-117): the frame is
\* cut at the first delimiter, parsed, dispatched and answered, and the rest
\* of the chunk becomes the accumulation buffer.
ReadFrame ==
    /\ pc = "loop"
    /\ \E size \in 1..Min(Len(wire), MaxChunk) :
       LET data == SubSeq(wire, 1, size)
           index == position(data)
           parts == split_at(data, index)
           frame == raw_request \o parts.request_end
           parsed == parse_request(frame)
       IN
       /\ index # 0
       /\ \E connOk \in ConnectOutcomes(state, parsed),
             readOk \in ReadOutcomes(state, parsed),
             writeOk \in WriteOutcomes(parsed) :
         LET h == handle_request(state, parsed.val, Len(connectCalls) + 1,
                                 connOk, readOk)
             response == IF h.result.ok THEN h.result.val
                         ELSE ErrorResp(h.result.val)
             writePanics == IF h.result.ok
                            THEN handle_response(writeOk)
                            ELSE handle_error(writeOk)
             tail == AfterLastDelimiter(data)
             step == [Step("frame") EXCEPT
                        !.frame = frame,
                        !.wireFrame = cur \o parts.request_end,
                        !.span = IF curClean THEN curReads + 1 ELSE 0,
                        !.before = state,
                        !.chunk = data]
         IN
         /\ wire' = SubSeq(wire, size + 1, Len(wire))
         /\ delimReads' = delimReads + 1
         /\ cur' = tail
         /\ curReads' = 0
         /\ curClean' = (tail = <<>>)
         /\ pair' = IF cur = <<>> /\ curClean /\ TwoFrames(data) # {}
                    THEN Some([at |-> Len(dispatched),
                               texts |-> CHOOSE t \in TwoFrames(data) : TRUE])
                    ELSE pair
         /\ IF ~parsed.ok
            THEN \* lines 112-114: the failure is printed, nothing is written
                 /\ raw_request' = parts.rest
                 /\ last' = step
                 /\ state' = parse_failed(state)
                 /\ UNCHANGED <<pc, task, channel, written, dispatched,
                                connectCalls, readCalls, endCause,
                                answered, spawns>>
            ELSE /\ dispatched' = Append(dispatched, parsed.val)
                 /\ connectCalls' = connectCalls \o h.connects
                 /\ readCalls' = readCalls \o h.reads
                 /\ task' = IF h.spawned THEN "running" ELSE task
                 /\ spawns' = IF h.spawned
                              THEN Append(spawns, Len(connectCalls) + 1)
                              ELSE spawns
                 /\ channel' = channel
                 /\ IF h.panic
                    THEN \* connect(..) unwound the thread (line 232)
                         /\ pc' = "panicked"
                         /\ endCause' = "connect_failed"
                         /\ last' = [step EXCEPT
                                       !.decoded = Some(parsed.val),
                                       !.extCalls = 1,
                                       !.spawned = h.spawned,
                                       !.panic = "connect"]
                         /\ state' = h.state
                         /\ UNCHANGED <<raw_request, written, answered>>
                    ELSE /\ state' = h.state
                         /\ last' = [step EXCEPT
                                       !.decoded = Some(parsed.val),
                                       !.response = Some(response),
                                       !.wrote = IF writeOk THEN "ok"
                                                 ELSE "failed",
                                       !.extCalls = Len(h.connects)
                                                      + Len(h.reads),
                                       !.spawned = h.spawned,
                                       !.panic = IF writePanics THEN "write"
                                                 ELSE "none"]
                         /\ written' = IF writeOk
                                       THEN write_all(written, response)
                                       ELSE written
                         /\ answered' = IF writeOk
                                        THEN write_all(answered,
                                                       Len(dispatched) + 1)
                                        ELSE answered
                         /\ IF writePanics
                            THEN /\ pc' = "panicked"
                                 /\ endCause' = "write_error"
                                 /\ raw_request' = raw_request
                            ELSE /\ pc' = pc
                                 /\ endCause' = endCause
                                 /\ raw_request' = parts.rest
    /\ UNCHANGED <<sends, lockVars, listenerVars>>

Next ==
    \/ PeerSend
    \/ KeepAliveStopped
    \/ KeepAliveLost
    \/ ReadEof
    \/ ReadError
    \/ ReadNoDelimiter
    \/ ReadFrame

Spec == Init /\ [][Next]_vars

(* --------------------------- the session lock -------------------------- *)
\* SpecLock follows the RwLock around the session (Arc<RwLock<Session>>)
\* on a connection whose Connect has succeeded: the handler takes write
\* access for each external read (lines 188-197), the keep-alive task takes
\* it for each of its rounds.
MaxReads == 3
MaxPolls == 3

connectionVars == <<handlerVars, wire, sends>>

\* The connection right after its first frame, a Connect, has succeeded.
Connected ==
    LET req == ConnectReq(1)
        h == handle_request(EmptyState, req, 1, TRUE, TRUE)
    IN
    /\ pc = "loop"
    /\ state = h.state
    /\ raw_request = <<LINE_FEED>>
    /\ wire = <<>>
    /\ sends = 1
    /\ task = "running"
    /\ channel = <<>>
    /\ written = <<h.result.val>>
    /\ dispatched = <<req>>
    /\ connectCalls = h.connects
    /\ readCalls = <<>>
    /\ last = [Step("frame") EXCEPT
                 !.frame = ConnectText(1), !.wireFrame = ConnectText(1),
                 !.span = 1, !.chunk = ConnectText(1) \o <<LINE_FEED>>,
                 !.decoded = Some(req), !.response = Some(h.result.val),
                 !.wrote = "ok", !.extCalls = 1, !.spawned = TRUE]
    /\ cur = <<>>
    /\ curReads = 0
    /\ curClean = TRUE
    /\ pair = None
    /\ endCause = "none"
    /\ answered = <<1>>
    /\ spawns = <<1>>
    /\ delimReads = 1

LockInit ==
    /\ Connected
    /\ LockIdle
    /\ ListenerIdle

\* A Read arrives: the handler reaches my_session.write() (line 189).
HandlerWantsLock ==
    /\ hpc = "idle"
    /\ lockReads < MaxReads
    /\ hpc' = "waiting"
    /\ UNCHANGED <<lock, tpc, lockReads, lockPolls, connectionVars,
                   listenerVars>>

\* Mutant: the handler goes on to the read without waiting for the lock.
HandlerLocks_NoWait ==
    /\ hpc = "waiting"
    /\ hpc' = "reading"
    /\ lock' = IF lock = "free" THEN "handler" ELSE lock
    /\ UNCHANGED <<tpc, lockReads, lockPolls, connectionVars, listenerVars>>

\* write() returns once nobody holds the lock (line 189); the handler is
\* then inside the_session.read (line 191).
HandlerLocks ==
    /\ hpc = "waiting"
    /\ lock = "free"
    /\ lock' = "handler"
    /\ hpc' = "reading"
    /\ UNCHANGED <<tpc, lockReads, lockPolls, connectionVars, listenerVars>>

\* read() returns and the guard the_session is dropped at the end of the
\* arm (lines 191-198).
HandlerUnlocks ==
    /\ hpc = "reading"
    /\ lock' = IF lock = "handler" THEN "free" ELSE lock
    /\ hpc' = "idle"
    /\ lockReads' = lockReads + 1
    /\ UNCHANGED <<tpc, lockPolls, connectionVars, listenerVars>>

\* The keep-alive task asks for the lock for a round of keep-alive traffic,
TaskWantsLock ==
    /\ tpc = "idle"
    /\ lockPolls < MaxPolls
    /\ tpc' = "waiting"
    /\ UNCHANGED <<lock, hpc, lockReads, lockPolls, connectionVars,
                   listenerVars>>

\* gets it once nobody holds it,
TaskLocks ==
    /\ tpc = "waiting"
    /\ lock = "free"
    /\ lock' = "task"
    /\ tpc' = "polling"
    /\ UNCHANGED <<hpc, lockReads, lockPolls, connectionVars, listenerVars>>

\* and gives it back when the round is over.
TaskUnlocks ==
    /\ tpc = "polling"
    /\ lock' = IF lock = "task" THEN "free" ELSE lock
    /\ tpc' = "idle"
    /\ lockPolls' = lockPolls + 1
    /\ UNCHANGED <<hpc, lockReads, connectionVars, listenerVars>>

\* Between two rounds the task may end (the connection is gone).
TaskEnds ==
    /\ tpc = "idle"
    /\ tpc' = "ended"
    /\ UNCHANGED <<lock, hpc, lockReads, lockPolls, connectionVars,
                   listenerVars>>

LockNext ==
    \/ HandlerWantsLock
    \/ HandlerLocks
    \/ HandlerUnlocks
    \/ TaskWantsLock
    \/ TaskLocks
    \/ TaskUnlocks
    \/ TaskEnds

SpecLock == LockInit /\ [][LockNext]_vars

(* ----------------------------- the listener ---------------------------- *)
\* SpecListener follows main (lines 60-75) after a successful bind: the
\* accept loop and the threads it spawns, each running handle_client.  A
\* panic of the main thread ends the process and with it every thread.
MaxConns == 2
MaxAcceptErrors == 2
MaxHandled == 2

ListenerInit ==
    /\ Init

Thread(status, handled) == [status |-> status, handled |-> handled]
Live == {c \in 1..Len(conns) : conns[c].status = "running"}

\* incoming() yields Ok(stream), peer_addr() succeeds, the thread is
\* spawned (lines 64-69).
AcceptOk ==
    /\ listener = "accepting"
    /\ Len(conns) < MaxConns
    /\ conns' = Append(conns, Thread("running", 0))
    /\ UNCHANGED <<listener, acceptErrors, connectionVars, lockVars>>

\* incoming() yields Ok(stream) but the peer is gone already:
\* stream.peer_addr().unwrap() (line 65) panics in the main thread, the
\* process ends and every connection thread with it.
AcceptAnnouncePanics ==
    /\ listener = "accepting"
    /\ Len(conns) < MaxConns
    /\ listener' = "dead"
    /\ conns' = [c \in 1..Len(conns) |->
                   IF conns[c].status = "running"
                   THEN Thread("killed", conns[c].handled)
                   ELSE conns[c]]
    /\ UNCHANGED <<acceptErrors, connectionVars, lockVars>>

\* incoming() yields Err(e): the error is printed (lines 71-73).
AcceptError ==
    /\ listener = "accepting"
    /\ acceptErrors < MaxAcceptErrors
    /\ acceptErrors' = acceptErrors + 1
    /\ UNCHANGED <<listener, conns, connectionVars, lockVars>>

\* A connection thread handles one more frame (lines 87-121).
ConnHandles ==
    /\ listener = "accepting"
    /\ \E c \in Live :
         /\ conns[c].handled < MaxHandled
         /\ conns' = [conns EXCEPT ![c].handled = @ + 1]
    /\ UNCHANGED <<listener, acceptErrors, connectionVars, lockVars>>

\* handle_client returns (lines 130-135).
ConnReturns ==
    /\ listener = "accepting"
    /\ \E c \in Live : conns' = [conns EXCEPT ![c].status = "done"]
    /\ UNCHANGED <<listener, acceptErrors, connectionVars, lockVars>>

\* An unwrap inside handle_client panics (lines 123, 131, 134, 232, 238):
\* that thread unwinds.
ConnPanics ==
    /\ listener = "accepting"
    /\ \E c \in Live : conns' = [conns EXCEPT ![c].status = "panicked"]
    /\ UNCHANGED <<listener, acceptErrors, connectionVars, lockVars>>

ListenerNext ==
    \/ AcceptOk
    \/ AcceptAnnouncePanics
    \/ AcceptError
    \/ ConnHandles
    \/ ConnReturns
    \/ ConnPanics

SpecListener == ListenerInit /\ [][ListenerNext]_vars

(* ------------------------------- claims -------------------------------- *)
\* The latest step of the handler cut a frame and handed a request of the
\* given type to handle_request.
Handled(type) ==
    /\ last.op = "frame"
    /\ last.decoded # None
    /\ last.decoded[1].type = type

\* the calls of connect() made before the latest step, and those that
\* succeeded
EarlierConnects ==
    IF Handled("connect") THEN Len(connectCalls) - last.extCalls
    ELSE Len(connectCalls)
ConnectedBefore == \E i \in 1..EarlierConnects : connectCalls[i].ok
Succeeded == {i \in 1..Len(connectCalls) : connectCalls[i].ok}

\* the latest step made an external call and it failed
ConnectJustFailed ==
    /\ Handled("connect")
    /\ last.extCalls = 1
    /\ ~connectCalls[Len(connectCalls)].ok
ReadJustFailed ==
    /\ Handled("read")
    /\ last.extCalls = 1
    /\ ~readCalls[Len(readCalls)].ok

IsError(resp, m) == resp # None /\ resp[1].type = "error" /\ resp[1].message = m

\* C1: a Connect whose external handshake fails is answered with an Error
\* response and the connection stays open in state Disconnected.
C1_FailedConnectAnswered ==
    ConnectJustFailed =>
        /\ pc = "loop"
        /\ last.response # None
        /\ last.response[1].type = "error"
        /\ state = EmptyState

\* C2: when one read holds two complete request frames, both requests are
\* decoded and dispatched, in their order, by the time the handler has read
\* everything the peer sent and returned.
C2_TwoFramesBothDispatched ==
    (pc = "done" /\ pair # None) =>
        /\ Len(dispatched) >= pair[1].at + 2
        /\ dispatched[pair[1].at + 1] = parse_request(pair[1].texts[1]).val
        /\ dispatched[pair[1].at + 2] = parse_request(pair[1].texts[2]).val

\* C3: every frame, also one that fails to decode, yields a response, and a
\* decode failure yields an Error response.
C3_EveryFrameAnswered ==
    (last.op = "frame" /\ last.decoded = None) =>
        /\ last.response # None
        /\ last.response[1].type = "error"

\* C4: when the handler has stopped after end-of-stream, a socket read
\* error or a socket write error with a stop-signal stored, Stop has been
\* sent to the keep-alive task.
C4_StopSentWhenHandlerEnds ==
    ( /\ pc # "loop"
      /\ endCause \in {"eof", "read_error", "write_error"}
      /\ state.command_sender # None ) => channel # <<>>

\* C5: a failed write of a response ends the handler at once, and the
\* keep-alive task, if there is one, is told to stop.
C5_FailedWriteTearsDown ==
    (last.op = "frame" /\ last.wrote = "failed") =>
        /\ pc # "loop"
        /\ (state.command_sender # None => channel # <<>>)

\* C6: a Read handled while no Connect has succeeded is answered with Error
\* "Cannot read, no active session", calls nothing external and leaves the
\* state as it was.
C6_ReadBeforeConnect ==
    (Handled("read") /\ Succeeded = {}) =>
        /\ IsError(last.response, "Cannot read, no active session")
        /\ last.extCalls = 0
        /\ readCalls = <<>>
        /\ state = last.before
C6_Witness ==
    /\ Handled("read")
    /\ Succeeded = {}
    /\ last.wrote = "ok"
    /\ Len(dispatched) >= 2

\* C7: after a successful Connect every later Connect is answered with
\* Error "Session already in progress", calls nothing external, starts no
\* task and leaves the state as it was; every external read uses the
\* namespace of the successful Connect.
C7_SecondConnectRejected ==
    /\ (Handled("connect") /\ ConnectedBefore) =>
          /\ IsError(last.response, "Session already in progress")
          /\ last.extCalls = 0
          /\ ~last.spawned
          /\ state = last.before
    /\ \A i \in 1..Len(readCalls) : \A j \in Succeeded :
          /\ j = 1
          /\ readCalls[i].namespace = connectCalls[j].req.namespace
C7_Witness ==
    /\ Handled("read")
    /\ last.extCalls = 1
    /\ Len(dispatched) = 3
    /\ dispatched[1] = ConnectReq(1)
    /\ dispatched[2] = ConnectReq(2)
    /\ readCalls[1].namespace = 1

\* C8: a request frame that arrives over two or more reads, the delimiter
\* only in the last, is decoded as the request its bytes spell and gets one
\* response (a thread that died in connect() apart).
C8_SplitFrameDecodedOnce ==
    ( /\ last.op = "frame"
      /\ last.span >= 2
      /\ parse_request(last.wireFrame).ok
      /\ endCause # "connect_failed" ) =>
        /\ last.decoded = Some(parse_request(last.wireFrame).val)
        /\ last.response # None

\* C9: the session is present exactly if a Connect has succeeded, at most
\* one Connect succeeds, and no step makes a present session absent.
C9_SessionIffConnected ==
    /\ [](/\ (state.session # None) <=> (Succeeded # {})
          /\ Cardinality(Succeeded) <= 1)
    /\ [][state.session # None => state'.session # None]_vars
C9_Witness ==
    /\ state.session # None
    /\ last.op = "frame"
    /\ last.before.session # None
    /\ Len(dispatched) = 3

\* C10: when the external read fails the response is an Error, the state is
\* as it was, no Stop is sent, and every external read of the connection is
\* issued against the one session stored.
C10_FailedReadKeepsSession ==
    /\ ReadJustFailed =>
          /\ last.response # None
          /\ last.response[1].type = "error"
          /\ state = last.before
          /\ state.session # None
          /\ channel = <<>>
    /\ \A i \in 1..Len(readCalls) :
          state.session = Some(readCalls[i].session)
C10_Witness ==
    /\ ReadJustFailed
    /\ Len(readCalls) = 2
    /\ ~readCalls[1].ok
    /\ last.wrote = "ok"

\* The latest step's connect() call succeeded.
ConnectJustSucceeded ==
    /\ Handled("connect")
    /\ last.extCalls = 1
    /\ connectCalls[Len(connectCalls)].ok

\* a response of this type can answer a request of that type
Answers(resp, req) ==
    /\ resp.type = "connect_ok" => req.type = "connect"
    /\ resp.type = "read_ok" => req.type = "read"

\* C11: the responses are written in the order in which their requests were
\* decoded, and a response that is written answers the request dispatched
\* last: no later request has been dispatched before it.
C11_ResponsesInRequestOrder ==
    /\ Len(answered) = Len(written)
    /\ \A i \in 1..Len(answered) :
          /\ answered[i] \in 1..Len(dispatched)
          /\ i > 1 => answered[i - 1] < answered[i]
          /\ Answers(written[i], dispatched[answered[i]])
    /\ (last.op = "frame" /\ last.wrote = "ok") =>
          /\ answered[Len(answered)] = Len(dispatched)
          /\ written[Len(written)] = last.response[1]
C11_Witness ==
    /\ Len(written) = 3
    /\ written[1].type = "connect_ok"
    /\ written[2].type = "read_ok"
    /\ written[3].type = "error"

\* C13: a successful Connect stores the request's server config and the
\* session handle, starts one keep-alive task on that handle, stores its
\* stop-signal and answers ConnectOk; at most one task is ever started, and
\* only with the session present.
C13_ConnectStoresAll ==
    /\ ConnectJustSucceeded =>
          /\ last.before = EmptyState
          /\ state.server = Some([namespace |-> last.decoded[1].namespace])
          /\ state.session = Some(Len(connectCalls))
          /\ last.spawned
          /\ spawns = <<Len(connectCalls)>>
          /\ state.command_sender = Some(spawns[1])
          /\ last.response = Some(ConnectOk)
    /\ Len(spawns) <= 1
    /\ spawns # <<>> => state.session = Some(spawns[1])
    /\ (task # "none") <=> (spawns # <<>>)
C13_Witness ==
    /\ ConnectJustSucceeded
    /\ last.decoded[1].namespace = 2
    /\ last.wrote = "ok"
    /\ Len(dispatched) = 2

\* C14: after a Connect that failed no session handle and no server config
\* are stored and no keep-alive task has been started.
C14_FailedConnectLeavesNothing ==
    ConnectJustFailed =>
        /\ state.session = None
        /\ state.server = None
        /\ state.command_sender = None
        /\ spawns = <<>>
        /\ task = "none"
C14_Witness ==
    /\ ConnectJustFailed
    /\ Len(dispatched) = 2
    /\ pc = "panicked"

\* C16: after a read that held a delimiter the frame ends with the chunk
\* bytes before the first delimiter and the accumulation buffer is exactly
\* the chunk bytes after that delimiter.
C16_RestFollowsDelimiter ==
    (last.op = "frame" /\ last.panic = "none") =>
        LET i == position(last.chunk)
            n == Len(last.frame) IN
        /\ SubSeq(last.frame, n - i + 2, n) = SubSeq(last.chunk, 1, i - 1)
        /\ raw_request = SubSeq(last.chunk, i + 1, Len(last.chunk))

\* C17: the teardown after the loop ends normally in every interleaving,
\* also when the keep-alive task has ended before Stop is sent (a socket
\* that fails under shutdown or peer_addr apart).
C17_TeardownCompletes ==
    ( /\ last.op \in {"eof", "read_error"}
      /\ last.panic \notin {"shutdown", "peer_addr"} ) => pc = "done"

\* C18: server config, session and stop-signal are all present or all
\* absent, and every external read uses the stored namespace, never the
\* fallback 0.
C18_AllOrNothing ==
    /\ (state.server = None) <=> (state.session = None)
    /\ (state.session = None) <=> (state.command_sender = None)
    /\ \A i \in 1..Len(readCalls) :
          /\ readCalls[i].namespace # 0
          /\ state.server = Some([namespace |-> readCalls[i].namespace])
C18_Witness ==
    /\ Len(readCalls) = 2
    /\ readCalls[2].namespace = 2

\* C19: a frame that fails to decode leaves the state as it was, calls
\* nothing external and keeps the handler in its loop; when the chunk ended
\* with that frame's delimiter, every request frame that follows decodes as
\* it does on an empty buffer.
C19_BadFrameIsNoTransition ==
    (last.op = "frame" /\ last.decoded = None) =>
        /\ state = last.before
        /\ last.extCalls = 0
        /\ pc = "loop"
        /\ position(last.chunk) = Len(last.chunk) =>
              \A t \in RequestTexts :
                  parse_request(raw_request \o t) = parse_request(t)
C19_Witness ==
    /\ last.op = "frame"
    /\ last.decoded = None
    /\ last.before.session # None
    /\ position(last.chunk) = Len(last.chunk)
    /\ Len(last.frame) >= 2

\* C20: requests dispatched and responses written never outnumber the reads
\* that returned a delimiter, and end-of-stream decodes and answers nothing,
\* whatever is left in the accumulation buffer.
C20_OnlyDelimiterReadsDispatch ==
    /\ [](/\ Len(dispatched) <= delimReads
          /\ Len(written) <= delimReads)
    /\ [][(pc = "loop" /\ last'.op = "eof") =>
            (dispatched' = dispatched /\ written' = written)]_vars
C20_Witness ==
    /\ last.op = "eof"
    /\ \E i \in 1..Len(raw_request) : raw_request[i] # LINE_FEED
    /\ parse_request(raw_request).ok

\* C12: while the handler is inside the external read it holds the write
\* access to the session, and the keep-alive task is not inside a round of
\* its own.
C12_ReadHoldsWriteLock ==
    /\ hpc = "reading" => (lock = "handler" /\ tpc # "polling")
    /\ tpc = "polling" => lock = "task"
C12_Witness ==
    /\ hpc = "reading"
    /\ tpc = "waiting"
    /\ lockPolls >= 1
    /\ lockReads >= 1

\* C15: after the bind nothing ends the listener, and no connection is
\* ended by what happens to the listener or to another connection.
C15_ListenerSurvives ==
    /\ listener = "accepting"
    /\ \A c \in 1..Len(conns) : conns[c].status # "killed"

====
